---- MODULE Spec2Model ----
(***************************************************************************)
(* A model of psi4_losc/utils.py: the occupation resolver form_occ and the *)
(* two grid assemblers form_grid_lo and form_grid_w.                       *)
(*                                                                         *)
(* Occupation numbers are kept in tenths (0.5 is 5, 1 is 10, 1.5 is 15).   *)
(* A Python dict is a sequence of <<key, value>> pairs in insertion order. *)
(* A numpy array is a sequence; an element records the block and the       *)
(* point of the block its value was computed from (NoPoint: still zero).   *)
(***************************************************************************)
EXTENDS Integers, Sequences, FiniteSets, TLC

VARIABLES
    wfn,        \* form_occ: the context [nbf, nalpha, nbeta]
    given,      \* form_occ: whether the first call passes the occ argument
    occ0,       \* the override mapping as the caller built it
    callerOcc,  \* the caller's override mapping object, now
    defaults,   \* the shared default argument object of form_occ (occ={})
    log,        \* the calls made so far: [given, out]
    wfnType,    \* grid: the type of the context object
    blocks,     \* grid: npoints of each block of the engine's grid
    npts,       \* grid: the engine-reported total point count
    nlo,        \* grid: the number of columns of C_lo
    lo,         \* the running form_grid_lo call
    w           \* the running form_grid_w call

occVars == <<wfn, given, occ0, callerOcc, defaults, log>>
gridVars == <<wfnType, blocks, npts, nlo, lo, w>>
vars == <<wfn, given, occ0, callerOcc, defaults, log,
              wfnType, blocks, npts, nlo, lo, w>>

-----------------------------------------------------------------------------
(* Bounds of the model.                                                    *)
MaxNbf == 2
MaxSize == 3
MaxIdemSize == 2
MaxCalls == 3
MaxBlocks == 3
MaxBlockPts == 2
MaxLo == 1

-----------------------------------------------------------------------------
(* form_occ                                                                *)

\* The occupation number 1 of the aufbau filling, in tenths.
One == 10

StrSel(n) == [isStr |-> TRUE, name |-> n, idx |-> 0]
IntSel(i) == [isStr |-> FALSE, name |-> "", idx |-> i]

\* str.lower() on the strings the model passes.
Lower(str) ==
    CASE str = "Alpha" -> "alpha"
      [] str = "BETA" -> "beta"
      [] str = "HOMO" -> "homo"
      [] str = "Lumo" -> "lumo"
      [] OTHER -> str

spin_chanel == <<"alpha", "beta">>

\* spin_chanel.index(k), 0-based as in the code.
SpinIndex(k) == IF k = spin_chanel[1] THEN 0 ELSE 1

nelec(ctx) == <<ctx.nalpha, ctx.nbeta>>

\* {i: 1 for i in range(n)}
Aufbau(n) == [i \in 1..n |-> <<i - 1, One>>]

DictKeys(d) == {d[i][1] : i \in 1..Len(d)}

\* d[k] = v: overwrite in place, or insert at the end.
DictSet(d, k, v) ==
    IF k \in DictKeys(d)
    THEN [i \in 1..Len(d) |-> IF d[i][1] = k THEN <<k, v>> ELSE d[i]]
    ELSE Append(d, <<k, v>>)

\* 'homo' -> nelec[s] - 1, 'lumo' -> nelec[s]; an integer stays itself.
ResolveSelector(sel, n) ==
    IF sel.isStr
    THEN IF Lower(sel.name) = "homo" THEN n - 1 ELSE n
    ELSE sel.idx

KnownSelector(sel) == ~sel.isStr \/ Lower(sel.name) \in {"homo", "lumo"}

\* the test of line 164, negated: the index passes
IndexInRangeMut(orb_i, nbf) == ~(orb_i > nbf)
IndexInRange(orb_i, nbf) == ~(orb_i >= nbf)

\* the test of line 166, negated: the occupation number passes
OccNumberValidMut(occ_i) == 0 <= occ_i
OccNumberValid(occ_i) == 0 <= occ_i /\ occ_i <= One

Raised(kind) ==
    [status |-> "raise", error |-> kind,
     nocc |-> <<>>, occ_idx |-> <<>>, occ_val |-> <<>>]

\* One (orb_i, occ_i) item of one channel's overrides, lines 156-168.
ApplyEntry(st, s, e, ctx) ==
    IF ~KnownSelector(e[1]) THEN [st EXCEPT !.err = "selector"]
    ELSE LET orb_i == ResolveSelector(e[1], nelec(ctx)[s + 1])
         IN  IF ~IndexInRange(orb_i, ctx.nbf) THEN [st EXCEPT !.err = "range"]
             ELSE IF ~OccNumberValid(e[2])
                  THEN [st EXCEPT !.err = "occupation"]
                  ELSE [st EXCEPT !.rst[s + 1] = DictSet(@, orb_i, e[2])]

RECURSIVE ApplyInner(_, _, _, _, _)
ApplyInner(st, s, v, j, ctx) ==
    IF st.err # "none" \/ j > Len(v) THEN st
    ELSE ApplyInner(ApplyEntry(st, s, v[j], ctx), s, v, j + 1, ctx)

\* The loop over occ.items(), lines 149-168.
RECURSIVE ApplyOverrides(_, _, _, _)
ApplyOverrides(st, occ, i, ctx) ==
    IF st.err # "none" \/ i > Len(occ) THEN st
    ELSE LET k == Lower(occ[i][1])
         IN  IF k \notin {spin_chanel[1], spin_chanel[2]}
             THEN [st EXCEPT !.err = "channel"]
             ELSE ApplyOverrides(ApplyInner(st, SpinIndex(k), occ[i][2], 1, ctx),
                                 occ, i + 1, ctx)

\* (index, value) tuples compare by index first, then by value.
ItemLess(a, b) == a[1] < b[1] \/ (a[1] = b[1] /\ a[2] < b[2])

RECURSIVE SortSet(_)
SortSet(S) ==
    IF S = {} THEN <<>>
    ELSE LET m == CHOOSE x \in S : \A y \in S \ {x} : ItemLess(x, y)
         IN  <<m>> \o SortSet(S \ {m})

\* list(d.items()) followed by .sort(), lines 173-174
SortedItems(d) == SortSet({d[i] : i \in 1..Len(d)})

\* lines 170-181: sort each channel, split it with zip(*...), count.
\* zip(*[]) yields nothing and the unpacking into (idx, occ) raises.
Finish(rst) ==
    LET a == SortedItems(rst[1])
        b == SortedItems(rst[2])
        Idx(x) == [i \in 1..Len(x) |-> x[i][1]]
        Val(x) == [i \in 1..Len(x) |-> x[i][2]]
    IN  IF Len(a) = 0 \/ Len(b) = 0 THEN Raised("ValueError")
        ELSE [status |-> "ok", error |-> "none",
              nocc |-> <<Len(Idx(a)), Len(Idx(b))>>,
              occ_idx |-> <<Idx(a), Idx(b)>>,
              occ_val |-> <<Val(a), Val(b)>>]

\* form_occ(wfn, occ): what the call returns or raises.
FormOcc(ctx, occ) ==
    LET st0 == [rst |-> <<Aufbau(ctx.nalpha), Aufbau(ctx.nbeta)>>, err |-> "none"]
        st  == ApplyOverrides(st0, occ, 1, ctx)
    IN  IF st.err # "none" THEN Raised(st.err) ELSE Finish(st.rst)

\* The object bound to the parameter occ after the call: the code only reads
\* it (occ.items()); line 175 rebinds the local name, not the object.
OccObjectAfterMut(ctx, occ) ==
    IF "alpha" \in DictKeys(occ) THEN occ
    ELSE Append(occ, <<"alpha", << <<StrSel("lumo"), 0>> >> >>)
OccObjectAfter(ctx, occ) == occ

-----------------------------------------------------------------------------
(* The inputs of form_occ.                                                 *)

Contexts ==
    {[nbf |-> MaxNbf, nalpha |-> a, nbeta |-> b] : a \in 0..MaxNbf, b \in 0..MaxNbf}

ChannelKeys == {"alpha", "Alpha", "beta", "gamma"}
Selectors == {StrSel("homo"), StrSel("Lumo"), StrSel("core"), IntSel(-1), IntSel(1)}
Values == {-5, 0, 5, 15}

\* dicts of n items over the key set K and value set V, keys distinct
RECURSIVE DictsOf(_, _, _)
DictsOf(n, K, V) ==
    IF n = 0 THEN {<<>>}
    ELSE {Append(d, <<k, v>>) :
            d \in DictsOf(n - 1, K, V), k \in K, v \in V}

DistinctKeys(d) == \A i, j \in 1..Len(d) : d[i][1] = d[j][1] => i = j

InnerDicts(n) == {d \in DictsOf(n, Selectors, Values) : DistinctKeys(d)}

\* outer dicts of len channel keys whose size is at most budget
RECURSIVE OuterOf(_, _)
OuterOf(len, budget) ==
    IF len = 0 THEN {<<>>}
    ELSE UNION {{Append(o, <<k, v>>) :
                    o \in OuterOf(len - 1, budget - 1 - n),
                    k \in ChannelKeys,
                    v \in InnerDicts(n)} : n \in 0..(budget - 1)}

Overrides(size) ==
    {o \in UNION {OuterOf(len, size) : len \in 0..size} : DistinctKeys(o)}

-----------------------------------------------------------------------------
(* form_grid_lo and form_grid_w                                            *)

Min(a, b) == IF a < b THEN a ELSE b

\* an array element no block has written: the zero of np.zeros
NoPoint == [blk |-> -1, pt |-> -1, by |-> {}]

\* np.zeros((n, ...)): n rows
Zeros(n) == [i \in 1..n |-> NoPoint]

NotCalled ==
    [pc |-> "idle", calls |-> {}, arr |-> <<>>, cols |-> 0, allocated |-> FALSE,
     npts_count |-> 0, b |-> 0, error |-> "none"]

\* arr[start:stop] = values of block blk, n of them along the first axis.
\* The slice is clipped to the array; n values go into a slice of n rows, and
\* a single value is broadcast to a slice of any length; anything else raises.
SliceLen(arr, start, stop) == Min(stop, Len(arr)) - Min(start, Len(arr))

SliceFits(arr, start, stop, n) ==
    n = SliceLen(arr, start, stop) \/ n = 1

AssignSlice(arr, start, stop, blk, n) ==
    LET first == Min(start, Len(arr))
        last  == Min(stop, Len(arr))
    IN  [i \in 1..Len(arr) |->
            IF first < i /\ i <= last
            THEN [blk |-> blk,
                  pt  |-> IF n = 1 THEN 0 ELSE i - 1 - first,
                  by  |-> arr[i].by \cup {blk}]
            ELSE arr[i]]

\* isinstance(wfn, psi4.core.HF), line 57
LoIsHFMut(t) == TRUE
LoIsHF(t) == t = "psi4.core.HF"

\* isinstance(wfn, psi4.core.HF), line 122
WIsHF(t) == t = "psi4.core.HF"

\* npts_count += npoints, line 98
LoNextCountMut(count, npoints) == npoints
LoNextCount(count, npoints) == count + npoints

\* npts_count += npoints, line 140
WNextCountMut(count, npoints) == npoints
WNextCount(count, npoints) == count + npoints

Running(call) == call.pc = "loop"

\* form_grid_lo, lines 57-79: the type check, the engine's grid, the allocation
LoEnter ==
    /\ lo.pc = "idle"
    /\ ~Running(w)
    /\ lo' = IF ~LoIsHF(wfnType)
             THEN [lo EXCEPT !.pc = "raised", !.error = "type"]
             ELSE [lo EXCEPT !.pc = "loop",
                             !.calls = {"V_potential", "grid", "grid.npoints", "properties"},
                             !.arr = Zeros(npts),
                             !.cols = nlo,
                             !.allocated = TRUE,
                             !.npts_count = 0,
                             !.b = 0]
    /\ UNCHANGED <<wfnType, blocks, npts, nlo, w>>
    /\ UNCHANGED occVars

\* form_grid_lo, lines 80-98: one turn of the loop over the blocks
LoBlock ==
    /\ lo.pc = "loop"
    /\ lo.b < Len(blocks)
    /\ LET npoints == blocks[lo.b + 1]
           start   == lo.npts_count
           stop    == lo.npts_count + npoints
           used    == lo.calls \cup {"nblocks", "get_block", "compute_points",
                                     "block.npoints", "functions_local_to_global",
                                     "basis_values"}
       IN  lo' = IF SliceFits(lo.arr, start, stop, npoints)
                 THEN [lo EXCEPT !.calls = used,
                                 !.arr = AssignSlice(lo.arr, start, stop, lo.b, npoints),
                                 !.npts_count = LoNextCount(lo.npts_count, npoints),
                                 !.b = lo.b + 1]
                 ELSE [lo EXCEPT !.calls = used, !.pc = "raised", !.error = "ValueError"]
    /\ UNCHANGED <<wfnType, blocks, npts, nlo, w>>
    /\ UNCHANGED occVars

\* form_grid_lo, line 100
LoReturn ==
    /\ lo.pc = "loop"
    /\ lo.b = Len(blocks)
    /\ lo' = [lo EXCEPT !.pc = "returned", !.calls = lo.calls \cup {"nblocks"}]
    /\ UNCHANGED <<wfnType, blocks, npts, nlo, w>>
    /\ UNCHANGED occVars

\* form_grid_w, lines 122-131
WEnter ==
    /\ w.pc = "idle"
    /\ ~Running(lo)
    /\ w' = IF ~WIsHF(wfnType)
            THEN [w EXCEPT !.pc = "raised", !.error = "type"]
            ELSE [w EXCEPT !.pc = "loop",
                           !.calls = {"V_potential", "grid", "grid.npoints"},
                           !.arr = Zeros(npts),
                           !.cols = 1,
                           !.allocated = TRUE,
                           !.npts_count = 0,
                           !.b = 0]
    /\ UNCHANGED <<wfnType, blocks, npts, nlo, lo>>
    /\ UNCHANGED occVars

\* form_grid_w, lines 133-140: one turn of the loop over the blocks
WBlock ==
    /\ w.pc = "loop"
    /\ w.b < Len(blocks)
    /\ LET npoints == blocks[w.b + 1]
           start   == w.npts_count
           stop    == w.npts_count + npoints
           used    == w.calls \cup {"nblocks", "get_block", "block.npoints", "block.w"}
       IN  w' = IF SliceFits(w.arr, start, stop, npoints)
                THEN [w EXCEPT !.calls = used,
                               !.arr = AssignSlice(w.arr, start, stop, w.b, npoints),
                               !.npts_count = WNextCount(w.npts_count, npoints),
                               !.b = w.b + 1]
                ELSE [w EXCEPT !.calls = used, !.pc = "raised", !.error = "ValueError"]
    /\ UNCHANGED <<wfnType, blocks, npts, nlo, lo>>
    /\ UNCHANGED occVars

\* form_grid_w, line 142
WReturn ==
    /\ w.pc = "loop"
    /\ w.b = Len(blocks)
    /\ w' = [w EXCEPT !.pc = "returned", !.calls = w.calls \cup {"nblocks"}]
    /\ UNCHANGED <<wfnType, blocks, npts, nlo, lo>>
    /\ UNCHANGED occVars

RECURSIVE SeqSum(_)
SeqSum(q) == IF q = <<>> THEN 0 ELSE q[1] + SeqSum(Tail(q))

RECURSIVE SeqsUpTo(_, _)
SeqsUpTo(n, S) ==
    IF n = 0 THEN {<<>>}
    ELSE SeqsUpTo(n - 1, S) \cup
         {Append(q, x) : q \in {p \in SeqsUpTo(n - 1, S) : Len(p) = n - 1}, x \in S}

Grids == SeqsUpTo(MaxBlocks, 0..MaxBlockPts)

\* the totals an engine may report for a grid: the sum of its blocks, or one off
Totals(q) == {t \in (SeqSum(q) - 1)..(SeqSum(q) + 1) : t >= 0}

OccIdle ==
    /\ wfn = [nbf |-> MaxNbf, nalpha |-> 0, nbeta |-> 0]
    /\ given = FALSE
    /\ occ0 = <<>>
    /\ callerOcc = <<>>
    /\ defaults = <<>>
    /\ log = <<>>

InitGrid ==
    /\ blocks \in Grids
    /\ npts \in Totals(blocks)
    /\ nlo \in 0..MaxLo
    /\ wfnType \in {"psi4.core.HF", "psi4.core.Wavefunction"}
    /\ lo = NotCalled
    /\ w = NotCalled
    /\ OccIdle

NextGrid == LoEnter \/ LoBlock \/ LoReturn \/ WEnter \/ WBlock \/ WReturn

SpecGrid == InitGrid /\ [][NextGrid]_vars

-----------------------------------------------------------------------------
(* The calls of form_occ.                                                  *)

GridIdle ==
    /\ wfnType = "psi4.core.HF"
    /\ blocks = <<>>
    /\ npts = 0
    /\ nlo = 0
    /\ lo = NotCalled
    /\ w = NotCalled

InitOcc(size) ==
    /\ occ0 \in Overrides(size)
    /\ given \in BOOLEAN
    /\ given = FALSE => occ0 = <<>>
    /\ wfn \in Contexts
    /\ callerOcc = occ0
    /\ defaults = <<>>
    /\ log = <<>>
    /\ GridIdle

\* form_occ(wfn, callerOcc) when g, form_occ(wfn) otherwise.
CallFormOcc(g) ==
    LET occ == IF g THEN callerOcc ELSE defaults
    IN  /\ log' = Append(log, [given |-> g, occ |-> occ, out |-> FormOcc(wfn, occ)])
        /\ callerOcc' = IF g THEN OccObjectAfter(wfn, occ) ELSE callerOcc
        /\ defaults' = IF g THEN defaults ELSE OccObjectAfter(wfn, occ)
        /\ UNCHANGED <<wfn, given, occ0>>
        /\ UNCHANGED gridVars

Init == InitOcc(MaxSize)

FormOccCall ==
    /\ Len(log) = 0
    /\ CallFormOcc(given)

Next == FormOccCall

Spec == Init /\ [][Next]_vars

\* Repeated calls on one context, with and without the occ argument.
InitIdem == InitOcc(MaxIdemSize) /\ given = TRUE

FormOccWithArg ==
    /\ Len(log) < MaxCalls
    /\ CallFormOcc(TRUE)

FormOccNoArg ==
    /\ Len(log) < MaxCalls
    /\ CallFormOcc(FALSE)

NextIdem == FormOccWithArg \/ FormOccNoArg

SpecIdem == InitIdem /\ [][NextIdem]_vars

-----------------------------------------------------------------------------
(* What the specification says of form_occ, stated without the code's      *)
(* operators.                                                              *)

IsAlphaKey(k) == k \in {"alpha", "Alpha", "ALPHA"}
IsBetaKey(k) == k \in {"beta", "Beta", "BETA"}
IsHomo(name) == name \in {"homo", "Homo", "HOMO"}
IsLumo(name) == name \in {"lumo", "Lumo", "LUMO"}

\* the (channel key, selector, value) items of an override set, in order
RECURSIVE Flat(_)
Flat(occ) ==
    IF occ = <<>> THEN <<>>
    ELSE [j \in 1..Len(occ[1][2]) |->
            [key |-> occ[1][1], sel |-> occ[1][2][j][1], val |-> occ[1][2][j][2]]]
         \o Flat(Tail(occ))

ChannelNo(key) == IF IsAlphaKey(key) THEN 1 ELSE 2
ElectronCount(ctx, c) == IF c = 1 THEN ctx.nalpha ELSE ctx.nbeta
GoodKey(key) == IsAlphaKey(key) \/ IsBetaKey(key)
GoodSelector(sel) == ~sel.isStr \/ IsHomo(sel.name) \/ IsLumo(sel.name)

Resolved(ctx, it) ==
    LET n == ElectronCount(ctx, ChannelNo(it.key))
    IN  IF ~it.sel.isStr THEN it.sel.idx
        ELSE IF IsHomo(it.sel.name) THEN n - 1 ELSE n

\* the kinds of malformation an override set shows
DefectKinds(ctx, occ) ==
    LET items == Flat(occ)
        Items == {items[j] : j \in 1..Len(items)}
    IN  {k \in {"channel", "selector", "range", "occupation"} :
           \/ k = "channel" /\ \E i \in 1..Len(occ) : ~GoodKey(occ[i][1])
           \/ k = "selector" /\ \E it \in Items : GoodKey(it.key) /\ ~GoodSelector(it.sel)
           \/ k = "range" /\ \E it \in Items :
                  GoodKey(it.key) /\ GoodSelector(it.sel) /\ Resolved(ctx, it) >= ctx.nbf
           \/ k = "occupation" /\ \E it \in Items :
                  GoodKey(it.key) /\ (it.val < 0 \/ it.val > 10)}

ValidOverride(ctx, occ) == DefectKinds(ctx, occ) = {}

\* the positions of the items of channel c that resolve to index i
Hits(ctx, occ, c, i) ==
    {j \in 1..Len(Flat(occ)) :
        ChannelNo(Flat(occ)[j].key) = c /\ Resolved(ctx, Flat(occ)[j]) = i}

ExpectedIndices(ctx, occ, c) ==
    (0..(ElectronCount(ctx, c) - 1)) \cup
    {Resolved(ctx, Flat(occ)[j]) :
        j \in {k \in 1..Len(Flat(occ)) : ChannelNo(Flat(occ)[k].key) = c}}

ExpectedValue(ctx, occ, c, i) ==
    LET H == Hits(ctx, occ, c, i)
    IN  IF H = {} THEN 10
        ELSE Flat(occ)[CHOOSE j \in H : \A k \in H : k <= j].val

RECURSIVE Ascending(_)
Ascending(S) ==
    IF S = {} THEN <<>>
    ELSE LET m == CHOOSE x \in S : \A y \in S : x <= y
         IN  <<m>> \o Ascending(S \ {m})

Calls == {log[i] : i \in 1..Len(log)}

\* C1: with no overrides (occ empty or omitted) form_occ returns, for each
\* channel and every electron count n >= 0, the indices (0, ..., n-1), n ones
\* and the count n.
C1_DefaultOccupation ==
    \A call \in Calls :
        call.occ = <<>> =>
            /\ call.out.status = "ok"
            /\ \A c \in 1..2 :
                 LET n == ElectronCount(wfn, c)
                 IN  /\ call.out.occ_idx[c] = [i \in 1..n |-> i - 1]
                     /\ call.out.occ_val[c] = [i \in 1..n |-> 10]
                     /\ call.out.nocc[c] = n

\* The example of the specification: nalpha = nbeta = 5, basis size 10,
\* {"alpha": {"homo": 0.5, "lumo": 0.3}}.
ExampleHolds ==
    LET out == FormOcc([nbf |-> 10, nalpha |-> 5, nbeta |-> 5],
                       << <<"alpha", << <<StrSel("homo"), 5>>, <<StrSel("lumo"), 3>> >> >> >>)
    IN  /\ out.status = "ok"
        /\ out.occ_idx = << <<0, 1, 2, 3, 4, 5>>, <<0, 1, 2, 3, 4>> >>
        /\ out.occ_val = << <<10, 10, 10, 10, 5, 3>>, <<10, 10, 10, 10, 10>> >>

\* C2: for every valid (non-empty) override set the result of each channel is the default
\* map {0..n-1 -> 1} overwritten at each resolved index ("homo" is n-1, "lumo"
\* is n, keys matched case-insensitively) and listed by ascending index; a
\* channel without overrides keeps its default result; the example holds.
C2_OverrideResult ==
    /\ ExampleHolds
    /\ \A call \in Calls :
        (call.occ # <<>> /\ ValidOverride(wfn, call.occ)) =>
            /\ call.out.status = "ok"
            /\ \A c \in 1..2 :
                 LET idx == Ascending(ExpectedIndices(wfn, call.occ, c))
                 IN  /\ call.out.occ_idx[c] = idx
                     /\ call.out.occ_val[c] =
                          [p \in 1..Len(idx) |-> ExpectedValue(wfn, call.occ, c, idx[p])]

\* C3: a malformed override set is rejected with an error of the kind of one
\* of its malformations (invalid channel, invalid selector, index out of
\* range, invalid occupation) and no result, partial or whole, is returned.
C3_MalformedRejected ==
    \A call \in Calls :
        DefectKinds(wfn, call.occ) # {} =>
            /\ call.out.status = "raise"
            /\ call.out.error \in DefectKinds(wfn, call.occ)
            /\ call.out.nocc = <<>>
            /\ call.out.occ_idx = <<>>
            /\ call.out.occ_val = <<>>

C3_Witness ==
    \E call \in Calls :
        /\ Cardinality(DefectKinds(wfn, call.occ)) >= 2
        /\ call.out.status = "raise"
        /\ call.out.error = "occupation"

\* C4: whenever form_occ returns a result, every returned index is below the
\* basis size, every returned occupation lies in [0, 1], each index list is
\* strictly ascending, and index list, value list and nocc agree in length.
C4_ReturnedWellFormed ==
    \A call \in Calls :
        call.out.status = "ok" =>
            \A c \in 1..2 :
                LET idx == call.out.occ_idx[c]
                    val == call.out.occ_val[c]
                IN  /\ \A p \in 1..Len(idx) : idx[p] < wfn.nbf
                    /\ \A p \in 1..Len(val) : 0 <= val[p] /\ val[p] <= 10
                    /\ \A p, q \in 1..Len(idx) : p < q => idx[p] < idx[q]
                    /\ Len(idx) = Len(val)
                    /\ Len(idx) = call.out.nocc[c]

C4_Witness ==
    \E call \in Calls :
        /\ call.out.status = "ok"
        /\ Len(Flat(call.occ)) >= 2
        /\ call.out.nocc[1] > wfn.nalpha
        /\ \E p \in 1..Len(call.out.occ_val[1]) : call.out.occ_val[1][p] = 5

C9_CountListed ==
    \A call \in Calls :
        (call.occ # <<>> /\ ValidOverride(wfn, call.occ)) =>
            /\ call.out.status = "ok"
            /\ \A c \in 1..2 :
                 call.out.nocc[c] = Cardinality(ExpectedIndices(wfn, call.occ, c))

\* C10: every index form_occ returns lies in 0..basis_size-1.
C10_IndicesValid ==
    \A call \in Calls :
        call.out.status = "ok" =>
            \A c \in 1..2 :
                \A p \in 1..Len(call.out.occ_idx[c]) :
                    call.out.occ_idx[c][p] \in 0..(wfn.nbf - 1)

-----------------------------------------------------------------------------
(* What the specification says of the grid assemblers.                     *)

\* the number of points of the blocks before block b (b counted from 0)
Start(b) == SeqSum(SubSeq(blocks, 1, b))

\* the positions of an array that block b has written
RowsOf(arr, b) == {i \in 1..Len(arr) : b \in arr[i].by}

BlockRange(b) == (Start(b) + 1)..(Start(b) + blocks[b + 1])

\* C6: the weights and the orbital values use the same point ordering: what
\* form_grid_w fills from block b are the rows form_grid_lo fills from block
\* b, starting at the sum of the earlier blocks' npoints, and the weight
\* vector has the engine-reported length.
C6_SameOrdering ==
    /\ w.allocated => Len(w.arr) = npts
    /\ \A b \in 0..(Min(lo.b, w.b) - 1) :
          /\ RowsOf(lo.arr, b) = RowsOf(w.arr, b)
          /\ Start(b) + blocks[b + 1] <= npts => RowsOf(w.arr, b) = BlockRange(b)
    /\ (lo.pc = "returned" /\ w.pc = "returned") =>
          \A i \in 1..npts :
              /\ lo.arr[i].blk = w.arr[i].blk
              /\ lo.arr[i].pt = w.arr[i].pt

C6_Witness ==
    /\ lo.pc = "returned" /\ w.pc = "returned"
    /\ Len(blocks) >= 3
    /\ \A b \in 1..Len(blocks) : blocks[b] >= 1
    /\ blocks[1] # blocks[2]
    /\ SeqSum(blocks) = npts

\* C7: when the blocks' point counts sum to the engine-reported total, the
\* matrix of form_grid_lo has npts rows and the columns of C_lo, block b is
\* written to the rows [Start(b), Start(b) + npoints(b)), every row is written
\* by exactly one block, and npts_count ends at npts.
C7_RowsPartition ==
    (SeqSum(blocks) = npts) =>
        /\ lo.pc # "raised" \/ lo.error = "type"
        /\ lo.pc = "loop" => lo.npts_count = Start(lo.b)
        /\ lo.pc = "returned" =>
              /\ Len(lo.arr) = npts
              /\ lo.cols = nlo
              /\ lo.npts_count = npts
              /\ \A b \in 0..(Len(blocks) - 1) : RowsOf(lo.arr, b) = BlockRange(b)
              /\ \A i \in 1..npts : Cardinality(lo.arr[i].by) = 1

C7_Witness ==
    /\ lo.pc = "returned"
    /\ SeqSum(blocks) = npts
    /\ Len(blocks) >= 3
    /\ \A b \in 1..Len(blocks) : blocks[b] >= 1
    /\ nlo >= 1

\* C8: with a context that is not a psi4.core.HF object both assemblers raise
\* the type error before any use of the context: no engine call is made and
\* no array is allocated or returned.
C8_TypeCheckedFirst ==
    wfnType # "psi4.core.HF" =>
        /\ lo.pc \in {"idle", "raised"}
        /\ lo.pc = "raised" => lo.error = "type"
        /\ lo.calls = {} /\ ~lo.allocated
        /\ w.pc \in {"idle", "raised"}
        /\ w.pc = "raised" => w.error = "type"
        /\ w.calls = {} /\ ~w.allocated

C8_Witness ==
    /\ wfnType # "psi4.core.HF"
    /\ lo.pc = "raised"
    /\ w.pc = "raised"
    /\ Len(blocks) >= 1

====
